---- MODULE Spec2Model ----
\* The localized-content store of the Parental_Education screen:
\* translations.js exports one object literal, `translations`, that maps a
\* language code to an entry with the single field `guidelines`.  The lookup
\* consumers perform is the member expression translations[code].guidelines.
\* Texts are modelled as JavaScript sees them: sequences of UTF-16 code units.
EXTENDS Integers, Sequences, FiniteSets, TLC

VARIABLES
  translations, \* own properties of the exported object: code -> entry (field -> text)
  requested,    \* per reader: the code of its latest lookup, NoCode before the first
  result,       \* per reader: the completion of its latest lookup
  returned      \* per code: every completion a lookup of that code has produced

vars == <<translations, requested, result, returned>>

\* Number of readers (components holding the imported binding).
NumReaders == 2

Readers == 1..NumReaders

\* Codes a reader may ask for: the two configured ones, one unconfigured one, and
\* two names every JavaScript object inherits from Object.prototype.
RequestedCodes == {"en", "hi", "xx", "constructor", "toString"}

NoCode == "(none)"

\* en.guidelines with guideline 1 reworded ("six" for "6"): a content slip.
en_guidelines_reworded ==
  \* line 3: (non-ASCII text of the source line)
     <<55357, 56438, 32, 80, 97, 114, 101, 110, 116, 97, 108, 32, 71, 117, 105, 100, 101, 108, 105, 110, 101, 115, 32, 102>> \o
     <<111, 114, 32, 73, 110, 102, 97, 110, 116, 115, 32, 40, 77, 101, 100, 105, 99, 97, 108, 32, 70, 111, 99, 117>> \o
     <<115, 41, 58, 10>>
  \* line 4: (blank line)
  \o <<10>>
  \* line 5: 1. Breastfeed exclusively for the first six months.
  \o <<49, 46, 32, 66, 114, 101, 97, 115, 116, 102, 101, 101, 100, 32, 101, 120, 99, 108, 117, 115, 105, 118, 101, 108>> \o
     <<121, 32, 102, 111, 114, 32, 116, 104, 101, 32, 102, 105, 114, 115, 116, 32, 115, 105, 120, 32, 109, 111, 110, 116>> \o
     <<104, 115, 46, 10>>
  \* line 6: (non-ASCII text of the source line)
  \o <<50, 46, 32, 78, 111, 32, 104, 111, 110, 101, 121, 32, 111, 114, 32, 99, 111, 119, 8217, 115, 32, 109, 105, 108>> \o
     <<107, 32, 98, 101, 102, 111, 114, 101, 32, 49, 32, 121, 101, 97, 114, 46, 10>>
  \* line 7: 3. Follow the full vaccination schedule (e.g. BCG, Hep B, DTP).
  \o <<51, 46, 32, 70, 111, 108, 108, 111, 119, 32, 116, 104, 101, 32, 102, 117, 108, 108, 32, 118, 97, 99, 99, 105>> \o
     <<110, 97, 116, 105, 111, 110, 32, 115, 99, 104, 101, 100, 117, 108, 101, 32, 40, 101, 46, 103, 46, 32, 66, 67>> \o
     <<71, 44, 32, 72, 101, 112, 32, 66, 44, 32, 68, 84, 80, 41, 46, 10>>
  \* line 8: (non-ASCII text of the source line)
  \o <<52, 46, 32, 84, 114, 97, 99, 107, 32, 100, 101, 118, 101, 108, 111, 112, 109, 101, 110, 116, 97, 108, 32, 109>> \o
     <<105, 108, 101, 115, 116, 111, 110, 101, 115, 32, 8212, 32, 115, 101, 101, 107, 32, 104, 101, 108, 112, 32, 105, 102>> \o
     <<32, 100, 101, 108, 97, 121, 101, 100, 46, 10>>
  \* line 9: 5. Always place baby on back for sleep (prevents SIDS).
  \o <<53, 46, 32, 65, 108, 119, 97, 121, 115, 32, 112, 108, 97, 99, 101, 32, 98, 97, 98, 121, 32, 111, 110, 32>> \o
     <<98, 97, 99, 107, 32, 102, 111, 114, 32, 115, 108, 101, 101, 112, 32, 40, 112, 114, 101, 118, 101, 110, 116, 115>> \o
     <<32, 83, 73, 68, 83, 41, 46, 10>>
  \* line 10: 6. Use mild, fragrance-free products; clean front to back.
  \o <<54, 46, 32, 85, 115, 101, 32, 109, 105, 108, 100, 44, 32, 102, 114, 97, 103, 114, 97, 110, 99, 101, 45, 102>> \o
     <<114, 101, 101, 32, 112, 114, 111, 100, 117, 99, 116, 115, 59, 32, 99, 108, 101, 97, 110, 32, 102, 114, 111, 110>> \o
     <<116, 32, 116, 111, 32, 98, 97, 99, 107, 46, 10>>
  \* line 11: 7. Be aware of family genetic issues; consult early if needed.
  \o <<55, 46, 32, 66, 101, 32, 97, 119, 97, 114, 101, 32, 111, 102, 32, 102, 97, 109, 105, 108, 121, 32, 103, 101>> \o
     <<110, 101, 116, 105, 99, 32, 105, 115, 115, 117, 101, 115, 59, 32, 99, 111, 110, 115, 117, 108, 116, 32, 101, 97>> \o
     <<114, 108, 121, 32, 105, 102, 32, 110, 101, 101, 100, 101, 100, 46, 10>>
  \* line 12: 8. Call doctor if baby has fever, poor feeding, or lethargy.
  \o <<56, 46, 32, 67, 97, 108, 108, 32, 100, 111, 99, 116, 111, 114, 32, 105, 102, 32, 98, 97, 98, 121, 32, 104>> \o
     <<97, 115, 32, 102, 101, 118, 101, 114, 44, 32, 112, 111, 111, 114, 32, 102, 101, 101, 100, 105, 110, 103, 44, 32>> \o
     <<111, 114, 32, 108, 101, 116, 104, 97, 114, 103, 121, 46, 10>>
  \* line 13: (non-ASCII text of the source line)
  \o <<57, 46, 32, 84, 97, 108, 107, 44, 32, 115, 105, 110, 103, 44, 32, 97, 110, 100, 32, 98, 111, 110, 100, 32>> \o
     <<100, 97, 105, 108, 121, 32, 8212, 32, 97, 118, 111, 105, 100, 32, 115, 99, 114, 101, 101, 110, 115, 46, 10>>
  \* line 14: 10. Attend all pediatric follow-ups and growth checks.
  \o <<49, 48, 46, 32, 65, 116, 116, 101, 110, 100, 32, 97, 108, 108, 32, 112, 101, 100, 105, 97, 116, 114, 105, 99>> \o
     <<32, 102, 111, 108, 108, 111, 119, 45, 117, 112, 115, 32, 97, 110, 100, 32, 103, 114, 111, 119, 116, 104, 32, 99>> \o
     <<104, 101, 99, 107, 115, 46>>

\* translations.en.guidelines: the template literal's value as UTF-16 code units
\* (a line break inside the literal is the code unit 10).
en_guidelines ==
  \* line 3: (non-ASCII text of the source line)
     <<55357, 56438, 32, 80, 97, 114, 101, 110, 116, 97, 108, 32, 71, 117, 105, 100, 101, 108, 105, 110, 101, 115, 32, 102>> \o
     <<111, 114, 32, 73, 110, 102, 97, 110, 116, 115, 32, 40, 77, 101, 100, 105, 99, 97, 108, 32, 70, 111, 99, 117>> \o
     <<115, 41, 58, 10>>
  \* line 4: (blank line)
  \o <<10>>
  \* line 5: 1. Breastfeed exclusively for the first 6 months.
  \o <<49, 46, 32, 66, 114, 101, 97, 115, 116, 102, 101, 101, 100, 32, 101, 120, 99, 108, 117, 115, 105, 118, 101, 108>> \o
     <<121, 32, 102, 111, 114, 32, 116, 104, 101, 32, 102, 105, 114, 115, 116, 32, 54, 32, 109, 111, 110, 116, 104, 115>> \o
     <<46, 10>>
  \* line 6: (non-ASCII text of the source line)
  \o <<50, 46, 32, 78, 111, 32, 104, 111, 110, 101, 121, 32, 111, 114, 32, 99, 111, 119, 8217, 115, 32, 109, 105, 108>> \o
     <<107, 32, 98, 101, 102, 111, 114, 101, 32, 49, 32, 121, 101, 97, 114, 46, 10>>
  \* line 7: 3. Follow the full vaccination schedule (e.g. BCG, Hep B, DTP).
  \o <<51, 46, 32, 70, 111, 108, 108, 111, 119, 32, 116, 104, 101, 32, 102, 117, 108, 108, 32, 118, 97, 99, 99, 105>> \o
     <<110, 97, 116, 105, 111, 110, 32, 115, 99, 104, 101, 100, 117, 108, 101, 32, 40, 101, 46, 103, 46, 32, 66, 67>> \o
     <<71, 44, 32, 72, 101, 112, 32, 66, 44, 32, 68, 84, 80, 41, 46, 10>>
  \* line 8: (non-ASCII text of the source line)
  \o <<52, 46, 32, 84, 114, 97, 99, 107, 32, 100, 101, 118, 101, 108, 111, 112, 109, 101, 110, 116, 97, 108, 32, 109>> \o
     <<105, 108, 101, 115, 116, 111, 110, 101, 115, 32, 8212, 32, 115, 101, 101, 107, 32, 104, 101, 108, 112, 32, 105, 102>> \o
     <<32, 100, 101, 108, 97, 121, 101, 100, 46, 10>>
  \* line 9: 5. Always place baby on back for sleep (prevents SIDS).
  \o <<53, 46, 32, 65, 108, 119, 97, 121, 115, 32, 112, 108, 97, 99, 101, 32, 98, 97, 98, 121, 32, 111, 110, 32>> \o
     <<98, 97, 99, 107, 32, 102, 111, 114, 32, 115, 108, 101, 101, 112, 32, 40, 112, 114, 101, 118, 101, 110, 116, 115>> \o
     <<32, 83, 73, 68, 83, 41, 46, 10>>
  \* line 10: 6. Use mild, fragrance-free products; clean front to back.
  \o <<54, 46, 32, 85, 115, 101, 32, 109, 105, 108, 100, 44, 32, 102, 114, 97, 103, 114, 97, 110, 99, 101, 45, 102>> \o
     <<114, 101, 101, 32, 112, 114, 111, 100, 117, 99, 116, 115, 59, 32, 99, 108, 101, 97, 110, 32, 102, 114, 111, 110>> \o
     <<116, 32, 116, 111, 32, 98, 97, 99, 107, 46, 10>>
  \* line 11: 7. Be aware of family genetic issues; consult early if needed.
  \o <<55, 46, 32, 66, 101, 32, 97, 119, 97, 114, 101, 32, 111, 102, 32, 102, 97, 109, 105, 108, 121, 32, 103, 101>> \o
     <<110, 101, 116, 105, 99, 32, 105, 115, 115, 117, 101, 115, 59, 32, 99, 111, 110, 115, 117, 108, 116, 32, 101, 97>> \o
     <<114, 108, 121, 32, 105, 102, 32, 110, 101, 101, 100, 101, 100, 46, 10>>
  \* line 12: 8. Call doctor if baby has fever, poor feeding, or lethargy.
  \o <<56, 46, 32, 67, 97, 108, 108, 32, 100, 111, 99, 116, 111, 114, 32, 105, 102, 32, 98, 97, 98, 121, 32, 104>> \o
     <<97, 115, 32, 102, 101, 118, 101, 114, 44, 32, 112, 111, 111, 114, 32, 102, 101, 101, 100, 105, 110, 103, 44, 32>> \o
     <<111, 114, 32, 108, 101, 116, 104, 97, 114, 103, 121, 46, 10>>
  \* line 13: (non-ASCII text of the source line)
  \o <<57, 46, 32, 84, 97, 108, 107, 44, 32, 115, 105, 110, 103, 44, 32, 97, 110, 100, 32, 98, 111, 110, 100, 32>> \o
     <<100, 97, 105, 108, 121, 32, 8212, 32, 97, 118, 111, 105, 100, 32, 115, 99, 114, 101, 101, 110, 115, 46, 10>>
  \* line 14: 10. Attend all pediatric follow-ups and growth checks.
  \o <<49, 48, 46, 32, 65, 116, 116, 101, 110, 100, 32, 97, 108, 108, 32, 112, 101, 100, 105, 97, 116, 114, 105, 99>> \o
     <<32, 102, 111, 108, 108, 111, 119, 45, 117, 112, 115, 32, 97, 110, 100, 32, 103, 114, 111, 119, 116, 104, 32, 99>> \o
     <<104, 101, 99, 107, 115, 46>>

\* hi.guidelines cut off inside guideline 3: a truncated paste.
hi_guidelines_truncated ==
  \* line 17: (non-ASCII text of the source line)
     <<55357, 56438, 32, 2358, 2367, 2358, 2369, 2323, 2306, 32, 2325, 2375, 32, 2354, 2367, 2319, 32, 2309, 2349, 2367, 2349, 2366, 2357, 2325>> \o
     <<32, 2342, 2367, 2358, 2366, 2344, 2367, 2352, 2381, 2342, 2375, 2358, 32, 40, 2330, 2367, 2325, 2367, 2340, 2381, 2360, 2325, 2368, 2351>> \o
     <<41, 58, 10>>
  \* line 18: (blank line)
  \o <<10>>
  \* line 19: (non-ASCII text of the source line)
  \o <<49, 46, 32, 2346, 2361, 2354, 2375, 32, 54, 32, 2350, 2361, 2368, 2344, 2379, 2306, 32, 2340, 2325, 32, 2325, 2375, 2357, 2354>> \o
     <<32, 2360, 2381, 2340, 2344, 2346, 2366, 2344, 32, 2325, 2352, 2366, 2319, 2306, 2404, 10>>
  \* line 20: (non-ASCII text of the source line)
  \o <<50, 46, 32, 49, 32, 2357, 2352, 2381, 2359, 32, 2360, 2375, 32, 2346, 2361, 2354, 2375, 32, 2358, 2361, 2342, 32, 2351, 2366>> \o
     <<32, 2327, 2366, 2351, 32, 2325, 2366, 32, 2342, 2370, 2343, 32, 2344, 32, 2342, 2375, 2306, 2404, 10>>
  \* line 21: (non-ASCII text of the source line)
  \o <<51, 46, 32, 2335, 2368, 2325, 2366, 2325, 2352, 2339>>

\* translations.hi.guidelines: the template literal's value as UTF-16 code units.
hi_guidelines ==
  \* line 17: (non-ASCII text of the source line)
     <<55357, 56438, 32, 2358, 2367, 2358, 2369, 2323, 2306, 32, 2325, 2375, 32, 2354, 2367, 2319, 32, 2309, 2349, 2367, 2349, 2366, 2357, 2325>> \o
     <<32, 2342, 2367, 2358, 2366, 2344, 2367, 2352, 2381, 2342, 2375, 2358, 32, 40, 2330, 2367, 2325, 2367, 2340, 2381, 2360, 2325, 2368, 2351>> \o
     <<41, 58, 10>>
  \* line 18: (blank line)
  \o <<10>>
  \* line 19: (non-ASCII text of the source line)
  \o <<49, 46, 32, 2346, 2361, 2354, 2375, 32, 54, 32, 2350, 2361, 2368, 2344, 2379, 2306, 32, 2340, 2325, 32, 2325, 2375, 2357, 2354>> \o
     <<32, 2360, 2381, 2340, 2344, 2346, 2366, 2344, 32, 2325, 2352, 2366, 2319, 2306, 2404, 10>>
  \* line 20: (non-ASCII text of the source line)
  \o <<50, 46, 32, 49, 32, 2357, 2352, 2381, 2359, 32, 2360, 2375, 32, 2346, 2361, 2354, 2375, 32, 2358, 2361, 2342, 32, 2351, 2366>> \o
     <<32, 2327, 2366, 2351, 32, 2325, 2366, 32, 2342, 2370, 2343, 32, 2344, 32, 2342, 2375, 2306, 2404, 10>>
  \* line 21: (non-ASCII text of the source line)
  \o <<51, 46, 32, 2335, 2368, 2325, 2366, 2325, 2352, 2339, 32, 2358, 2375, 2337, 2381, 2351, 2370, 2354, 32, 2325, 2366, 32, 2346, 2366>> \o
     <<2354, 2344, 32, 2325, 2352, 2375, 2306, 32, 40, 2332, 2376, 2360, 2375, 32, 66, 67, 71, 44, 32, 2361, 2375, 2346, 2375, 2335>> \o
     <<2366, 2311, 2335, 2367, 2360, 32, 66, 44, 32, 68, 84, 80, 41, 2404, 10>>
  \* line 22: (non-ASCII text of the source line)
  \o <<52, 46, 32, 2357, 2367, 2325, 2366, 2360, 2366, 2340, 2381, 2350, 2325, 32, 2350, 2368, 2354, 32, 2325, 2375, 32, 2346, 2340, 2381>> \o
     <<2341, 2352, 32, 2346, 2352, 32, 2344, 2332, 2364, 2352, 32, 2352, 2326, 2375, 2306, 32, 8212, 32, 2342, 2375, 2352, 2368, 32, 2361>> \o
     <<2379, 32, 2340, 2379, 32, 2337, 2377, 2325, 2381, 2335, 2352, 32, 2360, 2375, 32, 2350, 2367, 2354, 2375, 2306, 2404, 10>>
  \* line 23: (non-ASCII text of the source line)
  \o <<53, 46, 32, 2360, 2379, 2344, 2375, 32, 2325, 2375, 32, 2354, 2367, 2319, 32, 2348, 2330, 2381, 2330, 2375, 32, 2325, 2379, 32>> \o
     <<2361, 2350, 2375, 2358, 2366, 32, 2346, 2368, 2336, 32, 2325, 2375, 32, 2348, 2354, 32, 2360, 2369, 2354, 2366, 2319, 2306, 32, 40>> \o
     <<83, 73, 68, 83, 32, 2360, 2375, 32, 2348, 2330, 2366, 2357, 41, 2404, 10>>
  \* line 24: (non-ASCII text of the source line)
  \o <<54, 46, 32, 2361, 2354, 2381, 2325, 2375, 44, 32, 2326, 2369, 2358, 2348, 2370, 32, 2352, 2361, 2367, 2340, 32, 2313, 2340, 2381>> \o
     <<2346, 2366, 2342, 32, 2313, 2346, 2351, 2379, 2327, 32, 2325, 2352, 2375, 2306, 59, 32, 2360, 2366, 2350, 2344, 2375, 32, 2360, 2375>> \o
     <<32, 2346, 2368, 2331, 2375, 32, 2325, 2368, 32, 2323, 2352, 32, 2360, 2347, 2366, 2312, 32, 2325, 2352, 2375, 2306, 2404, 10>>
  \* line 25: (non-ASCII text of the source line)
  \o <<55, 46, 32, 2346, 2366, 2352, 2367, 2357, 2366, 2352, 2367, 2325, 32, 2310, 2344, 2369, 2357, 2306, 2358, 2367, 2325, 32, 2360, 2381>> \o
     <<2341, 2367, 2340, 2367, 2351, 2379, 2306, 32, 2325, 2375, 32, 2348, 2366, 2352, 2375, 32, 2350, 2375, 2306, 32, 2332, 2366, 2327, 2352>> \o
     <<2370, 2325, 32, 2352, 2361, 2375, 2306, 2404, 10>>
  \* line 26: (non-ASCII text of the source line)
  \o <<56, 46, 32, 2348, 2369, 2326, 2366, 2352, 44, 32, 2360, 2369, 2360, 2381, 2340, 2368, 32, 2351, 2366, 32, 2342, 2370, 2343, 32>> \o
     <<2344, 32, 2346, 2368, 2344, 2375, 32, 2346, 2352, 32, 2337, 2377, 2325, 2381, 2335, 2352, 32, 2360, 2375, 32, 2360, 2306, 2346, 2352>> \o
     <<2381, 2325, 32, 2325, 2352, 2375, 2306, 2404, 10>>
  \* line 27: (non-ASCII text of the source line)
  \o <<57, 46, 32, 2352, 2379, 2332, 2364, 32, 2348, 2366, 2340, 32, 2325, 2352, 2375, 2306, 44, 32, 2327, 2366, 2319, 2306, 32, 2324>> \o
     <<2352, 32, 2326, 2375, 2354, 2375, 2306, 32, 8212, 32, 2360, 2381, 2325, 2381, 2352, 2368, 2344, 32, 2360, 2375, 32, 2348, 2330, 2375>> \o
     <<2306, 2404, 10>>
  \* line 28: (non-ASCII text of the source line)
  \o <<49, 48, 46, 32, 2344, 2367, 2351, 2350, 2367, 2340, 32, 2348, 2366, 2354, 32, 2352, 2379, 2327, 32, 2357, 2367, 2358, 2375, 2359>> \o
     <<2332, 2381, 2334, 32, 2325, 2375, 32, 2330, 2375, 2325, 2309, 2346, 32, 2325, 2352, 2366, 2340, 2375, 32, 2352, 2361, 2375, 2306, 2404>>

\* The object literal of translations.js: two own keys, each entry one field.
translations_blank_hi ==
  [en |-> [guidelines |-> en_guidelines], hi |-> [guidelines |-> <<>>]]

translations_literal ==
  [en |-> [guidelines |-> en_guidelines], hi |-> [guidelines |-> hi_guidelines]]

\* Property names an ordinary object finds on its prototype chain
\* (Object.prototype); the literal's objects are created with that prototype.
ObjectPrototypeKeys ==
  {"constructor", "toString", "valueOf", "hasOwnProperty", "isPrototypeOf",
   "propertyIsEnumerable", "toLocaleString", "__proto__"}

\* JavaScript values and completions a lookup can end with.
Undefined == [type |-> "undefined", chars |-> <<>>]

StringValue(s) == [type |-> "string", chars |-> s]

Return(v) == [kind |-> "return", value |-> v]

ThrowTypeError == [kind |-> "throw", value |-> [type |-> "TypeError", chars |-> <<>>]]

NoResult == [kind |-> "none", value |-> Undefined]

\* translations[code].guidelines evaluated on the object `obj`:
\*  - code is an own key: the entry's guidelines (undefined when the entry has
\*    no such field);
\*  - code names an inherited property (a function or Object.prototype itself):
\*    that value has no guidelines property, the expression yields undefined;
\*  - otherwise translations[code] is undefined and reading .guidelines of it
\*    throws a TypeError.
get(obj, code) ==
  IF code \in DOMAIN obj
    THEN IF "guidelines" \in DOMAIN obj[code]
           THEN Return(StringValue(obj[code]["guidelines"]))
           ELSE Return(Undefined)
    ELSE IF code \in ObjectPrototypeKeys
           THEN Return(Undefined)
           ELSE ThrowTypeError

Init ==
  /\ translations = translations_literal
  /\ requested = [r \in Readers |-> NoCode]
  /\ result = [r \in Readers |-> NoResult]
  /\ returned = [c \in RequestedCodes |-> {}]

\* A lookup that also registers the code it was asked for, aliasing the English
\* entry when the code is not an own key (a caching fallback).
LookupRegistering(r, code) ==
  /\ requested' = [requested EXCEPT ![r] = code]
  /\ result' = [result EXCEPT ![r] = get(translations, code)]
  /\ returned' = [returned EXCEPT ![code] = @ \cup {get(translations, code)}]
  /\ translations' = [k \in DOMAIN translations \cup {code} |->
                        IF k \in DOMAIN translations THEN translations[k]
                                                     ELSE translations["en"]]

\* A lookup that hands the text out and leaves an empty string behind (a
\* destructive read).
LookupConsuming(r, code) ==
  /\ requested' = [requested EXCEPT ![r] = code]
  /\ result' = [result EXCEPT ![r] = get(translations, code)]
  /\ returned' = [returned EXCEPT ![code] = @ \cup {get(translations, code)}]
  /\ translations' = [k \in DOMAIN translations |->
                        IF k = code THEN [guidelines |-> <<>>] ELSE translations[k]]

\* A lookup that refuses a code another reader currently holds (an exclusive
\* checkout of the entry).
LookupExclusive(r, code) ==
  /\ \A q \in Readers \ {r} : requested[q] # code
  /\ requested' = [requested EXCEPT ![r] = code]
  /\ result' = [result EXCEPT ![r] = get(translations, code)]
  /\ returned' = [returned EXCEPT ![code] = @ \cup {get(translations, code)}]
  /\ translations' = translations

\* Reader r evaluates translations[code].guidelines: a pure read.
Lookup(r, code) ==
  /\ requested' = [requested EXCEPT ![r] = code]
  /\ result' = [result EXCEPT ![r] = get(translations, code)]
  /\ returned' = [returned EXCEPT ![code] = @ \cup {get(translations, code)}]
  /\ translations' = translations

Next == \E r \in Readers, code \in RequestedCodes : Lookup(r, code)

Spec == Init /\ [][Next]_vars

----------------------------------------------------------------------------
\* What the export lets an importing module do besides reading.  `export const`
\* fixes the binding only: the object and its entries are ordinary, unfrozen
\* objects, so property assignment and delete on them succeed.

\* Values the writes below draw from: the empty string and the text "x".
WrittenTexts == {<<>>}

WrittenEntries == {[guidelines |-> <<120>>]}

\* translations[code].guidelines = text, for an existing entry.
AssignGuidelines(code, text) ==
  /\ code \in DOMAIN translations
  /\ translations' =
       [translations EXCEPT ![code] =
          [f \in DOMAIN translations[code] \cup {"guidelines"} |->
             IF f = "guidelines" THEN text ELSE translations[code][f]]]
  /\ UNCHANGED <<requested, result, returned>>

\* translations[code] = entry: replaces an entry or inserts a new code.
AssignEntry(code, entry) ==
  /\ translations' = [k \in DOMAIN translations \cup {code} |->
                        IF k = code THEN entry ELSE translations[k]]
  /\ UNCHANGED <<requested, result, returned>>

\* delete translations[code]
DeleteEntry(code) ==
  /\ code \in DOMAIN translations
  /\ translations' = [k \in DOMAIN translations \ {code} |-> translations[k]]
  /\ UNCHANGED <<requested, result, returned>>

NextConsumers ==
  \/ \E r \in Readers, code \in RequestedCodes : Lookup(r, code)
  \/ \E text \in WrittenTexts : AssignGuidelines("en", text)
  \/ \E entry \in WrittenEntries : AssignEntry("xx", entry)
  \/ \E code \in {"hi", "xx"} : DeleteEntry(code)

SpecConsumers == Init /\ [][NextConsumers]_vars

----------------------------------------------------------------------------
\* Text helpers used to state the properties.

\* The codes configured by the source literal.
ConfiguredCodes == DOMAIN translations_literal

IsSubstring(sub, s) ==
  \E i \in 1..(Len(s) - Len(sub) + 1) : SubSeq(s, i, i + Len(sub) - 1) = sub

\* The lines of a text: split at every line break (code unit 10).
RECURSIVE SplitLines(_)
SplitLines(s) ==
  IF \A i \in 1..Len(s) : s[i] # 10
    THEN <<s>>
    ELSE LET i == CHOOSE j \in 1..Len(s) :
                    /\ s[j] = 10
                    /\ \A k \in 1..(j - 1) : s[k] # 10
         IN <<SubSeq(s, 1, i - 1)>> \o SplitLines(SubSeq(s, i + 1, Len(s)))

IsDigit(u) == u >= 48 /\ u <= 57

\* Number of leading decimal digits of a line.
DigitCount(line) ==
  CHOOSE n \in 0..Len(line) :
    /\ \A i \in 1..n : IsDigit(line[i])
    /\ n < Len(line) => ~IsDigit(line[n + 1])

RECURSIVE DecimalValue(_)
DecimalValue(digits) ==
  IF digits = <<>> THEN 0
  ELSE 10 * DecimalValue(SubSeq(digits, 1, Len(digits) - 1))
         + (digits[Len(digits)] - 48)

\* A guideline item is a line "<number>. <text>" with a non-empty text.
IsItem(line) ==
  LET n == DigitCount(line)
  IN /\ n > 0
     /\ Len(line) > n + 2
     /\ line[n + 1] = 46
     /\ line[n + 2] = 32

ItemNumber(line) == DecimalValue(SubSeq(line, 1, DigitCount(line)))

ItemText(line) == SubSeq(line, DigitCount(line) + 3, Len(line))

\* The item lines of a text, in order.
Items(text) == SelectSeq(SplitLines(text), IsItem)

\* One heading line, a blank separator, then the items numbered 1..10 and
\* nothing else.
WellFormedGuidelines(text) ==
  LET ls == SplitLines(text)
  IN /\ Len(ls) = 12
     /\ Len(ls[1]) > 0
     /\ ~IsItem(ls[1])
     /\ ls[2] = <<>>
     /\ \A k \in 1..10 : IsItem(ls[k + 2]) /\ ItemNumber(ls[k + 2]) = k

\* Reader r holds the returned text of a completed lookup.
HoldsText(r) ==
  /\ result[r].kind = "return"
  /\ result[r].value.type = "string"

TextOf(r) == result[r].value.chars

\* "Breastfeed exclusively for the first 6 months." as UTF-16 code units.
BreastfeedSentence ==
     <<66, 114, 101, 97, 115, 116, 102, 101, 101, 100, 32, 101, 120, 99, 108, 117, 115, 105, 118, 101, 108, 121, 32, 102>> \o
     <<111, 114, 32, 116, 104, 101, 32, 102, 105, 114, 115, 116, 32, 54, 32, 109, 111, 110, 116, 104, 115, 46>>

\* The Hindi phrase of guideline 3 ("follow the vaccination schedule"), 28 UTF-16
\* code units in Devanagari, as the specification quotes it.
VaccinationPhrase ==
     <<2335, 2368, 2325, 2366, 2325, 2352, 2339, 32, 2358, 2375, 2337, 2381, 2351, 2370, 2354, 32, 2325, 2366, 32, 2346, 2366, 2354, 2344, 32>> \o
     <<2325, 2352, 2375, 2306>>

----------------------------------------------------------------------------
\* C1: every lookup of a configured code (a key of the exported mapping)
\* returns a text value that is not empty.
C1_ConfiguredLookupNonEmpty ==
  /\ \A L \in DOMAIN translations :
       /\ get(translations, L).kind = "return"
       /\ get(translations, L).value.type = "string"
       /\ Len(get(translations, L).value.chars) > 0
  /\ \A r \in Readers :
       requested[r] \in DOMAIN translations =>
         HoldsText(r) /\ Len(TextOf(r)) > 0

C1_Witness ==
  /\ requested[1] = "en" /\ HoldsText(1) /\ Len(TextOf(1)) > 0
  /\ requested[2] = "hi" /\ HoldsText(2) /\ Len(TextOf(2)) > 0

\* C2: a lookup of a code that is not configured ends with the text of a
\* configured (fallback) language or with a signalled error (here: any thrown
\* exception is accepted as the signal); it never returns an empty or missing
\* value.
C2_UnknownCodeFallbackOrSignal ==
  \A r \in Readers :
    (requested[r] \in RequestedCodes \ ConfiguredCodes) =>
      \/ result[r].kind = "throw"
      \/ /\ HoldsText(r)
         /\ \E L \in ConfiguredCodes :
              TextOf(r) = translations_literal[L]["guidelines"]

\* C3: in every state consumers can reach, the mapping from codes to guidelines
\* text equals its initial value (no update, insert or delete is possible).
C3_StoreImmutable == translations = translations_literal

\* C4: all lookups of one code made during a run, whatever other lookups happen
\* in between, produce the same completion.
C4_GetIdempotent ==
  \A c \in RequestedCodes : Cardinality(returned[c]) <= 1

C4_Witness ==
  /\ requested[1] = "en" /\ requested[2] = "en"
  /\ result[1] = result[2]
  /\ returned["hi"] # {} /\ returned["xx"] # {}

\* C5: in every state the configured codes are exactly en and hi, each mapped
\* to one entry whose only field is guidelines; no lookup adds or removes one.
C5_CodesFixed ==
  /\ DOMAIN translations = {"en", "hi"}
  /\ \A L \in DOMAIN translations : DOMAIN translations[L] = {"guidelines"}

C5_Witness ==
  /\ returned["xx"] # {} /\ returned["constructor"] # {}
  /\ returned["en"] # {}
  /\ DOMAIN translations = {"en", "hi"}

\* C6: the text a lookup of "en" returns contains "Breastfeed exclusively for
\* the first 6 months." and that sentence is its guideline number 1, the first
\* item of the text.
C6_EnglishFirstGuideline ==
  \A r \in Readers :
    requested[r] = "en" =>
      /\ HoldsText(r)
      /\ IsSubstring(BreastfeedSentence, TextOf(r))
      /\ Len(Items(TextOf(r))) > 0
      /\ ItemNumber(Items(TextOf(r))[1]) = 1
      /\ ItemText(Items(TextOf(r))[1]) = BreastfeedSentence

C6_Witness ==
  /\ requested[1] = "en" /\ HoldsText(1)
  /\ IsSubstring(BreastfeedSentence, TextOf(1))

\* C7: the text a lookup of "hi" returns contains the Devanagari phrase of the
\* vaccination guideline, code unit for code unit, as the whole start of item 3.
C7_HindiVaccinationPhrase ==
  \A r \in Readers :
    requested[r] = "hi" =>
      /\ HoldsText(r)
      /\ IsSubstring(VaccinationPhrase, TextOf(r))
      /\ Len(Items(TextOf(r))) >= 3
      /\ SubSeq(ItemText(Items(TextOf(r))[3]), 1, Len(VaccinationPhrase))
           = VaccinationPhrase

C7_Witness ==
  /\ requested[2] = "hi" /\ HoldsText(2)
  /\ IsSubstring(VaccinationPhrase, TextOf(2))

\* C9: with several readers interleaving their lookups, every lookup of a
\* configured code holds the stored text of that code, every reader's lookup of
\* every code is enabled whatever the other readers hold, and the store keeps
\* its initial value.
C9_SharedReaders ==
  /\ \A r \in Readers :
       requested[r] \in ConfiguredCodes =>
         result[r] = Return(StringValue(translations_literal[requested[r]]["guidelines"]))
  /\ \A r \in Readers, c \in RequestedCodes : ENABLED Lookup(r, c)
  /\ translations = translations_literal

C9_Witness ==
  /\ requested[1] = "hi" /\ requested[2] = "hi"
  /\ HoldsText(1) /\ HoldsText(2)
  /\ TextOf(1) = hi_guidelines /\ TextOf(2) = hi_guidelines

\* C10: every configured text is one heading line followed (after a blank
\* line) by exactly ten items numbered 1 to 10 in increasing order, so the
\* English and the Hindi text have the same items, position by position.
C10_ParallelStructure ==
  /\ \A L \in DOMAIN translations :
       WellFormedGuidelines(translations[L]["guidelines"])
  /\ \A r \in Readers :
       (requested[r] \in ConfiguredCodes /\ HoldsText(r)) =>
         /\ Len(Items(TextOf(r))) = 10
         /\ \A k \in 1..10 : ItemNumber(Items(TextOf(r))[k]) = k

C10_Witness ==
  /\ requested[1] = "en" /\ requested[2] = "hi"
  /\ HoldsText(1) /\ HoldsText(2)
  /\ Len(Items(TextOf(1))) = Len(Items(TextOf(2)))
  /\ Len(Items(TextOf(2))) = 10

====
